---- MODULE Spec2Model ----
(***************************************************************************)
(* A rooted tree of nodes kept in a store (NodeRepository, a MongoDB       *)
(* collection of documents with a parent reference and a children list;    *)
(* NodeRepositoryPostgres, a table of rows with a parent_id) and the       *)
(* NodeService in front of it: addNode, getDescendants, setParent.         *)
(*                                                                         *)
(* Ids are modelled as the numbers 1, 2, ... in order of creation.  Three  *)
(* more tokens stand for the other values a caller can pass: Undefined     *)
(* (no parent given / the root's parent), Malformed (a string that is not  *)
(* an id of the store, such as 'invalidKey') and Absent (a well-formed id  *)
(* of no stored node).  A stored id is passed in the one spelling the      *)
(* store returns it in; other spellings of the same id (upper-case hex,    *)
(* '07' for '7') are outside the model.                                    *)
(*                                                                         *)
(* A call that never settles (a loop that never ends, a promise that is    *)
(* never resolved or rejected) is recorded with the outcome "hang".        *)
(***************************************************************************)
EXTENDS Integers, Sequences, FiniteSets, TLC

\* Bounds of the model: the largest number of stored documents (document
\* store) and of stored rows (relational store).
MaxNodes == 4

MaxRows == 3

\* The largest number of stored documents while calls run concurrently.
MaxDocs == 3

\* The largest number of documents stored by calls made on the store itself.
MaxStored == 3

Undefined == 0
Malformed == -1
Absent == -2

VARIABLES
  store,    \* the persisted nodes: [kind, parent, children, heap]
  call,     \* the last completed service call: [op, nodeId, parentId]
  result,   \* its outcome: [err, infos]
  before,   \* the store as it was when that call was made
  rootAdds, \* history: how many addNode() calls without a parent succeeded
  tasks,    \* the calls under way at the same time, one for each client
  mirror,   \* the relational store of a second service that is made the
            \* same calls, and the outcome of its last call: [st, err, infos]
  listedTwice \* history: a getDescendants answered earlier listed an id twice

vars == <<store, call, result, before, rootAdds, tasks, mirror, listedTwice>>

(***************************************************************************)
(* Helpers on sequences.                                                   *)
(***************************************************************************)
Range(s) == {s[i] : i \in 1..Len(s)}

\* Array.prototype.filter keeping the elements different from x.
Without(s, x) == SelectSeq(s, LAMBDA e : e # x)

\* s with x inserted so that it becomes the element at position pos.
InsertAt(s, pos, x) == SubSeq(s, 1, pos - 1) \o <<x>> \o SubSeq(s, pos, Len(s))

(***************************************************************************)
(* The data model.                                                         *)
(***************************************************************************)
Node(id, parent, children) == [id |-> id, parent |-> parent, children |-> children]

NodeInfo(id, parent, depth, root) ==
  [id |-> id, parent |-> parent, depth |-> depth, root |-> root]

NoNode == Node(Undefined, Undefined, <<>>)

\* The ids of the stored nodes: parent (and, in the document store,
\* children) is indexed by id.
Ids(st) == DOMAIN st.parent

EmptyStore(kind) ==
  [kind |-> kind, parent |-> << >>, children |-> << >>, heap |-> << >>]

\* The id the store gives to the next created node.
FreshId(st) == Cardinality(Ids(st)) + 1

\* What a repository operation yields: an error kind ("none" on success),
\* the Node it resolves with, and the store it leaves behind.
Outcome(err, node, st) == [err |-> err, node |-> node, st |-> st]

(***************************************************************************)
(* NodeRepository: the MongoDB store.  No query and no save is given the   *)
(* session of the transaction that addNode and setParent start, so every   *)
(* save is applied at once and abortTransaction undoes none of them.       *)
(***************************************************************************)
mongoNodeToNode(st, id) == Node(id, st.parent[id], st.children[id])

\* "none" when id resolves to a document, else the error that is rejected.
findNodeByIdOrReject(st, id) ==
  IF id = Malformed THEN "NotFoundError"
  ELSE IF id \notin Ids(st) THEN "NotFoundError"
  ELSE "none"

NodeRepository_getNode(st, id) ==
  IF findNodeByIdOrReject(st, id) # "none"
  THEN Outcome("NotFoundError", NoNode, st)
  ELSE Outcome("none", mongoNodeToNode(st, id), st)

NodeRepository_getNodeCount(st) == Cardinality(Ids(st))

\* Mutant: a node without a parent is created in the empty store only.
NodeRepository_addNode_oneRoot(st, parentId) ==
  LET new == FreshId(st)
      created == [st EXCEPT !.parent = Append(@, parentId),
                            !.children = Append(@, <<>>)]
  IN IF parentId = Malformed
     THEN Outcome("NotFoundError", NoNode, st)
     ELSE IF parentId = Undefined
     THEN IF Ids(st) # {}
          THEN Outcome("DuplicateRootError", NoNode, st)
          ELSE Outcome("none", mongoNodeToNode(created, new), created)
     ELSE IF parentId \notin Ids(created)
     THEN Outcome("NotFoundError", NoNode, created)
     ELSE Outcome("none", mongoNodeToNode(created, new),
                  [created EXCEPT !.children[parentId] = Append(@, new)])

\* Mutant: the new node becomes the first of its parent's children.
NodeRepository_addNode_unshift(st, parentId) ==
  LET new == FreshId(st)
      created == [st EXCEPT !.parent = Append(@, parentId),
                            !.children = Append(@, <<>>)]
  IN IF parentId = Malformed
     THEN Outcome("NotFoundError", NoNode, st)
     ELSE IF parentId = Undefined
     THEN Outcome("none", mongoNodeToNode(created, new), created)
     ELSE IF parentId \notin Ids(created)
     THEN Outcome("NotFoundError", NoNode, created)
     ELSE Outcome("none", mongoNodeToNode(created, new),
                  [created EXCEPT !.children[parentId] = <<new>> \o @])

NodeRepository_addNode(st, parentId) ==
  LET new == FreshId(st)
      created == [st EXCEPT !.parent = Append(@, parentId),
                            !.children = Append(@, <<>>)]
  IN IF parentId = Malformed
     THEN Outcome("NotFoundError", NoNode, st)
     ELSE IF parentId = Undefined
     THEN Outcome("none", mongoNodeToNode(created, new), created)
     ELSE IF parentId \notin Ids(created)
     THEN Outcome("NotFoundError", NoNode, created)
     ELSE Outcome("none", mongoNodeToNode(created, new),
                  [created EXCEPT !.children[parentId] = Append(@, new)])

\* Mutant: the node is not taken out of its old parent's children.
NodeRepository_setParent_keepInOld(st, nodeId, parentId) ==
  IF findNodeByIdOrReject(st, nodeId) # "none"
  THEN Outcome("NotFoundError", NoNode, st)
  ELSE IF st.parent[nodeId] = Undefined
  THEN Outcome("InvalidStructureError", NoNode, st)
  ELSE IF findNodeByIdOrReject(st, st.parent[nodeId]) # "none"
          \/ findNodeByIdOrReject(st, parentId) # "none"
  THEN Outcome("NotFoundError", NoNode, st)
  ELSE Outcome("none", Node(nodeId, parentId, st.children[nodeId]),
               [st EXCEPT !.children[parentId] = Append(@, nodeId),
                          !.parent[nodeId] = parentId])

\* Mutant: a node without a parent is not rejected.
NodeRepository_setParent_anyNode(st, nodeId, parentId) ==
  IF findNodeByIdOrReject(st, nodeId) # "none"
  THEN Outcome("NotFoundError", NoNode, st)
  ELSE IF findNodeByIdOrReject(st, st.parent[nodeId]) # "none"
  THEN Outcome("NotFoundError", NoNode, st)
  ELSE LET old == st.parent[nodeId]
           removed == [st EXCEPT !.children[old] = Without(@, nodeId)]
       IN IF findNodeByIdOrReject(removed, parentId) # "none"
          THEN Outcome("NotFoundError", NoNode, removed)
          ELSE LET added == [removed EXCEPT !.children[parentId] = Append(@, nodeId)]
                   updated == [added EXCEPT !.parent[nodeId] = parentId]
               IN Outcome("none", Node(nodeId, parentId, st.children[nodeId]), updated)

\* Mutant: the node is moved without its children.
NodeRepository_setParent_alone(st, nodeId, parentId) ==
  IF findNodeByIdOrReject(st, nodeId) # "none"
  THEN Outcome("NotFoundError", NoNode, st)
  ELSE IF st.parent[nodeId] = Undefined
  THEN Outcome("InvalidStructureError", NoNode, st)
  ELSE IF findNodeByIdOrReject(st, st.parent[nodeId]) # "none"
  THEN Outcome("NotFoundError", NoNode, st)
  ELSE LET old == st.parent[nodeId]
           removed == [st EXCEPT !.children[old] = Without(@, nodeId)]
       IN IF findNodeByIdOrReject(removed, parentId) # "none"
          THEN Outcome("NotFoundError", NoNode, removed)
          ELSE LET added == [removed EXCEPT !.children[parentId] = Append(@, nodeId)]
                   updated == [added EXCEPT !.parent[nodeId] = parentId,
                                            !.children[nodeId] = <<>>]
               IN Outcome("none", Node(nodeId, parentId, <<>>), updated)

\* Mutant: the new parent is read before the old parent is saved, and its
\* children are saved as they were read, with the node pushed onto them.
NodeRepository_setParent_staleNewParent(st, nodeId, parentId) ==
  IF findNodeByIdOrReject(st, nodeId) # "none"
  THEN Outcome("NotFoundError", NoNode, st)
  ELSE IF st.parent[nodeId] = Undefined
  THEN Outcome("InvalidStructureError", NoNode, st)
  ELSE IF findNodeByIdOrReject(st, st.parent[nodeId]) # "none"
  THEN Outcome("NotFoundError", NoNode, st)
  ELSE LET old == st.parent[nodeId]
           removed == [st EXCEPT !.children[old] = Without(@, nodeId)]
       IN IF findNodeByIdOrReject(removed, parentId) # "none"
          THEN Outcome("NotFoundError", NoNode, removed)
          ELSE LET added == [removed EXCEPT !.children[parentId] =
                                              Append(st.children[parentId], nodeId)]
                   updated == [added EXCEPT !.parent[nodeId] = parentId]
               IN Outcome("none", Node(nodeId, parentId, st.children[nodeId]), updated)

NodeRepository_setParent(st, nodeId, parentId) ==
  IF findNodeByIdOrReject(st, nodeId) # "none"
  THEN Outcome("NotFoundError", NoNode, st)
  ELSE IF st.parent[nodeId] = Undefined
  THEN Outcome("InvalidStructureError", NoNode, st)
  ELSE IF findNodeByIdOrReject(st, st.parent[nodeId]) # "none"
  THEN Outcome("NotFoundError", NoNode, st)
  ELSE LET old == st.parent[nodeId]
           removed == [st EXCEPT !.children[old] = Without(@, nodeId)]
       IN IF findNodeByIdOrReject(removed, parentId) # "none"
          THEN Outcome("NotFoundError", NoNode, removed)
          ELSE LET added == [removed EXCEPT !.children[parentId] = Append(@, nodeId)]
                   updated == [added EXCEPT !.parent[nodeId] = parentId]
               IN Outcome("none", Node(nodeId, parentId, st.children[nodeId]), updated)

(***************************************************************************)
(* NodeRepositoryPostgres: the relational store.  A row is (id,            *)
(* parent_id); the children of a node are the rows whose parent_id is its  *)
(* id, in the order in which the table returns them (heap).  No query      *)
(* states an ORDER BY, so an INSERT or UPDATE may leave the written row at *)
(* any position pos of that order.                                         *)
(***************************************************************************)
getChildIds(st, parentId) == SelectSeq(st.heap, LAMBDA c : st.parent[c] = parentId)

nodeFromNodeRowAndChildIds(st, id, childIds) == Node(id, st.parent[id], childIds)

\* The node table's parent_id references node(id): a write of a parent_id
\* that is no row's id is an error of the query.
ForeignKeyHolds(st, parentId) == parentId = Undefined \/ parentId \in Ids(st)

NodeRepositoryPostgres_getNode(st, id) ==
  IF id = Malformed
  THEN Outcome("NotFoundError", NoNode, st)
  ELSE IF id \notin Ids(st)
  THEN Outcome("hang", NoNode, st)
  ELSE Outcome("none", nodeFromNodeRowAndChildIds(st, id, getChildIds(st, id)), st)

NodeRepositoryPostgres_getNodeCount(st) == Cardinality(Ids(st))

NodeRepositoryPostgres_addNode(st, parentId, pos) ==
  LET new == FreshId(st)
      inserted == [st EXCEPT !.parent = Append(@, parentId),
                             !.heap = InsertAt(@, pos, new)]
  IN IF parentId = Malformed \/ ~ForeignKeyHolds(st, parentId)
     THEN Outcome("NotFoundError", NoNode, st)
     ELSE Outcome("none", nodeFromNodeRowAndChildIds(inserted, new, <<>>), inserted)

NodeRepositoryPostgres_setParent(st, nodeId, parentId, pos) ==
  IF nodeId = Malformed
  THEN Outcome("NotFoundError", NoNode, st)
  ELSE IF nodeId \notin Ids(st)
  THEN Outcome("crash", NoNode, st)
  ELSE IF st.parent[nodeId] = Undefined
  THEN Outcome("InvalidStructureError", NoNode, st)
  ELSE IF parentId = Malformed \/ ~ForeignKeyHolds(st, parentId)
  THEN Outcome("NotFoundError", NoNode, st)
  ELSE LET updated == [st EXCEPT !.parent[nodeId] = parentId,
                                 !.heap = InsertAt(Without(@, nodeId), pos, nodeId)]
       IN Outcome("none",
                  nodeFromNodeRowAndChildIds(updated, nodeId, getChildIds(updated, nodeId)),
                  updated)

(***************************************************************************)
(* INodeRepository: the store the service was constructed with.            *)
(***************************************************************************)
getNode(st, id) ==
  IF st.kind = "postgres" THEN NodeRepositoryPostgres_getNode(st, id)
  ELSE NodeRepository_getNode(st, id)

getNodeCount(st) ==
  IF st.kind = "postgres" THEN NodeRepositoryPostgres_getNodeCount(st)
  ELSE NodeRepository_getNodeCount(st)

addNode(st, parentId, pos) ==
  IF st.kind = "postgres" THEN NodeRepositoryPostgres_addNode(st, parentId, pos)
  ELSE NodeRepository_addNode(st, parentId)

setParent(st, nodeId, parentId, pos) ==
  IF st.kind = "postgres" THEN NodeRepositoryPostgres_setParent(st, nodeId, parentId, pos)
  ELSE NodeRepository_setParent(st, nodeId, parentId)

\* The positions at which a write may leave a row of a table of n rows
\* (the document store keeps no such order).
Positions(st, n) == IF st.kind = "postgres" THEN 1..n ELSE {1}

(***************************************************************************)
(* NodeService.                                                            *)
(***************************************************************************)
\* What a service call yields: an error kind ("none" on success, "hang"
\* when the call never settles), the NodeInfo values it resolves with, and
\* the store it leaves behind.
Reply(err, infos, st) == [err |-> err, infos |-> infos, st |-> st]

\* The loop of getNodeInfo: parentNode is the node the walk stands on,
\* fetched are the ids the walk has been on.  A walk that comes to an id
\* for the second time repeats itself for ever.
RECURSIVE WalkToRoot(_, _, _, _, _)
WalkToRoot(st, node, parentNode, depth, fetched) ==
  IF parentNode.parent = Undefined
  THEN Reply("none", <<NodeInfo(node.id, node.parent, depth, parentNode.id)>>, st)
  ELSE IF parentNode.parent \in fetched
  THEN Reply("hang", <<>>, st)
  ELSE LET got == getNode(st, parentNode.parent)
       IN IF got.err # "none"
          THEN Reply(got.err, <<>>, st)
          ELSE WalkToRoot(st, node, got.node, depth + 1,
                          fetched \cup {parentNode.parent})

\* Mutant: the depth is counted from 1.
getNodeInfo_depthFromOne(st, node) == WalkToRoot(st, node, node, 1, {node.id})

getNodeInfo(st, node) == WalkToRoot(st, node, node, 0, {node.id})

\* The child ids a fetch of id yields (none when the fetch fails).
ChildrenOf(st, id) ==
  LET got == getNode(st, id) IN IF got.err = "none" THEN got.node.children ELSE <<>>

\* The ids that come into the queue of a traversal whose queue holds ids.
RECURSIVE Queued(_, _)
Queued(st, ids) ==
  LET more == ids \cup UNION {Range(ChildrenOf(st, i)) : i \in ids}
  IN IF more = ids THEN ids ELSE Queued(st, more)

\* The loop of getDescendants never ends: every id that comes into the
\* queue is fetched and gets its NodeInfo, and one of them comes into the
\* queue again below itself.
NeverEmpties(st, queue) ==
  LET all == Queued(st, Range(queue))
  IN /\ \A i \in all : /\ getNode(st, i).err = "none"
                        /\ getNodeInfo(st, getNode(st, i).node).err = "none"
     /\ \E i \in all : i \in Queued(st, Range(ChildrenOf(st, i)))

\* The loop of getDescendants on a queue that empties or meets an error.
RECURSIVE Traverse(_, _, _)
Traverse(st, queue, descendants) ==
  IF queue = <<>>
  THEN Reply("none", descendants, st)
  ELSE LET queuedNode == getNode(st, Head(queue))
       IN IF queuedNode.err # "none"
          THEN Reply(queuedNode.err, <<>>, st)
          ELSE LET nodeInfo == getNodeInfo(st, queuedNode.node)
               IN IF nodeInfo.err # "none"
                  THEN Reply(nodeInfo.err, <<>>, st)
                  ELSE Traverse(st, Tail(queue) \o queuedNode.node.children,
                                descendants \o nodeInfo.infos)

\* Mutant: the node itself is put into the queue.
NodeService_getDescendants_withSelf(st, id) ==
  LET node == getNode(st, id)
  IN IF node.err # "none"
     THEN Reply(node.err, <<>>, st)
     ELSE IF NeverEmpties(st, <<id>>)
     THEN Reply("hang", <<>>, st)
     ELSE Traverse(st, <<id>>, <<>>)

\* Mutant: the queue is used as a stack (pop instead of shift).
RECURSIVE TraverseStack(_, _, _)
TraverseStack(st, queue, descendants) ==
  IF queue = <<>>
  THEN Reply("none", descendants, st)
  ELSE LET queuedNode == getNode(st, queue[Len(queue)])
       IN IF queuedNode.err # "none"
          THEN Reply(queuedNode.err, <<>>, st)
          ELSE LET nodeInfo == getNodeInfo(st, queuedNode.node)
               IN IF nodeInfo.err # "none"
                  THEN Reply(nodeInfo.err, <<>>, st)
                  ELSE TraverseStack(st, SubSeq(queue, 1, Len(queue) - 1)
                                           \o queuedNode.node.children,
                                     descendants \o nodeInfo.infos)

NodeService_getDescendants_stack(st, id) ==
  LET node == getNode(st, id)
  IN IF node.err # "none"
     THEN Reply(node.err, <<>>, st)
     ELSE IF NeverEmpties(st, node.node.children)
     THEN Reply("hang", <<>>, st)
     ELSE TraverseStack(st, node.node.children, <<>>)

NodeService_getDescendants(st, id) ==
  LET node == getNode(st, id)
  IN IF node.err # "none"
     THEN Reply(node.err, <<>>, st)
     ELSE IF NeverEmpties(st, node.node.children)
     THEN Reply("hang", <<>>, st)
     ELSE Traverse(st, node.node.children, <<>>)

\* Mutant: the node count is not looked at.
NodeService_addNode_anyRoot(st, parentId, pos) ==
  LET added == addNode(st, parentId, pos)
  IN IF added.err # "none"
     THEN Reply(added.err, <<>>, added.st)
     ELSE getNodeInfo(added.st, added.node)

NodeService_addNode(st, parentId, pos) ==
  IF parentId = Undefined /\ getNodeCount(st) > 0
  THEN Reply("DuplicateRootError", <<>>, st)
  ELSE LET added == addNode(st, parentId, pos)
       IN IF added.err # "none"
          THEN Reply(added.err, <<>>, added.st)
          ELSE getNodeInfo(added.st, added.node)

NodeService_setParent(st, nodeId, parentId, pos) ==
  IF nodeId = parentId
  THEN Reply("InvalidArgumentError", <<>>, st)
  ELSE LET descendants == NodeService_getDescendants(st, nodeId)
       IN IF descendants.err # "none"
          THEN Reply(descendants.err, <<>>, st)
          ELSE IF \E i \in 1..Len(descendants.infos) : descendants.infos[i].id = parentId
          THEN Reply("InvalidStructureError", <<>>, st)
          ELSE LET updated == setParent(st, nodeId, parentId, pos)
               IN IF updated.err # "none"
                  THEN Reply(updated.err, <<>>, updated.st)
                  ELSE getNodeInfo(updated.st, updated.node)

(***************************************************************************)
(* NodeController: the response code a handler sends for the outcome of    *)
(* the service call it awaited (NoResponse when that call never settles).  *)
(***************************************************************************)
NoResponse == 0

postNodeHandler(err) ==
  IF err \in {"hang", "crash"} THEN NoResponse
  ELSE IF err = "none" THEN 201
  ELSE IF err = "DuplicateRootError" THEN 405
  ELSE IF err = "NotFoundError" THEN 406
  ELSE 500

patchNodeHandler(err) ==
  IF err \in {"hang", "crash"} THEN NoResponse
  ELSE IF err = "none" THEN 200
  ELSE IF err = "NotFoundError" THEN 404
  ELSE 500

getDescendantsHander(err) ==
  IF err \in {"hang", "crash"} THEN NoResponse
  ELSE IF err = "none" THEN 200
  ELSE IF err = "NotFoundError" THEN 404
  ELSE 500

(***************************************************************************)
(* A service call under way.  The server awaits every query and every save *)
(* of a call, and between two of them the queries and saves of another     *)
(* request's call may run.  A task is a call with its position pc (the     *)
(* query or save it awaits next) and its local variables.                  *)
(***************************************************************************)
Clients == {1, 2}

Idle ==
  [op |-> "none", nodeId |-> Undefined, parentId |-> Undefined,
   pc |-> "idle", phase |-> "none", err |-> "none", infos |-> <<>>,
   node |-> NoNode,         \* node of getNodeInfo; mongoNode of the repository
   parentNode |-> NoNode,   \* parentNode of getNodeInfo
   depth |-> 0,             \* depth of getNodeInfo
   fetched |-> {},          \* the ids the walk of getNodeInfo has been on
   queue |-> <<>>,          \* queue of getDescendants
   queuedNode |-> NoNode,   \* queuedNode of getDescendants
   descendants |-> <<>>,    \* descendants of getDescendants
   doc |-> NoNode,          \* mongoParentNode, mongoOldParent, newParent
   count |-> -1,            \* what getNodeCount returned (-1: not asked)
   reads |-> 0,             \* history: the queries the call has made
   writes |-> 0,            \* history: the creates and saves it has made
   sawPartial |-> FALSE,    \* history: see Observes
   always |-> {}]           \* history: see Watching

\* A store and a task, as a step of the task leaves them.
Went(st, t) == [st |-> st, t |-> t]

\* The call is over: its promise is rejected with err or resolved with infos.
Settled(t, err, infos) ==
  [Idle EXCEPT !.op = t.op, !.nodeId = t.nodeId, !.parentId = t.parentId,
               !.pc = "done", !.err = err, !.infos = infos,
               !.count = t.count, !.reads = t.reads, !.writes = t.writes,
               !.sawPartial = t.sawPartial, !.always = t.always]

\* The call never settles: its parent walk goes round a cycle for ever.
Looping(t) == [Settled(t, "hang", <<>>) EXCEPT !.pc = "hang"]

Read(t) == [t EXCEPT !.reads = @ + 1]

Written(t) == [t EXCEPT !.writes = @ + 1]

\* findNodeByIdOrReject(id) rejects a malformed id without a query.
Queried(t, id) == IF id = Malformed THEN t ELSE Read(t)

\* getDescendants returns to the call that awaited it: the handler, or
\* setParent, which goes on to the repository's setParent.
getDescendants_returned(t, descendants) ==
  IF t.op = "getDescendants"
  THEN Settled(t, "none", descendants)
  ELSE IF \E i \in 1..Len(descendants) : descendants[i].id = t.parentId
  THEN Settled(t, "InvalidStructureError", <<>>)
  ELSE [t EXCEPT !.pc = "findNode", !.phase = "store",
                 !.node = NoNode, !.parentNode = NoNode, !.depth = 0,
                 !.fetched = {}, !.queue = <<>>, !.queuedNode = NoNode,
                 !.descendants = <<>>]

\* The test of the loop of getDescendants, up to the query of its body.
getDescendants_loop(t) ==
  IF t.queue = <<>>
  THEN getDescendants_returned(t, t.descendants)
  ELSE [t EXCEPT !.pc = "queued"]

\* Mutant: the loop of getDescendants pushes the NodeInfo twice.
getNodeInfo_returned_twice(t, info) ==
  IF t.phase = "scan"
  THEN getDescendants_loop(
         [t EXCEPT !.descendants = @ \o <<info, info>>,
                   !.queue = @ \o t.queuedNode.children,
                   !.node = NoNode, !.parentNode = NoNode, !.depth = 0,
                   !.fetched = {}, !.queuedNode = NoNode])
  ELSE Settled(t, "none", <<info>>)

\* getNodeInfo returns to the call that awaited it: the loop of
\* getDescendants, or addNode or setParent, which return what it returned.
getNodeInfo_returned(t, info) ==
  IF t.phase = "scan"
  THEN getDescendants_loop(
         [t EXCEPT !.descendants = Append(@, info),
                   !.queue = @ \o t.queuedNode.children,
                   !.node = NoNode, !.parentNode = NoNode, !.depth = 0,
                   !.fetched = {}, !.queuedNode = NoNode])
  ELSE Settled(t, "none", <<info>>)

\* The walk is about to come to an id for the second time.  While another
\* call may still write a parent reference (open) it goes round and round;
\* when none can, it never ends.
Revisiting(t, open) == IF open THEN [t EXCEPT !.pc = "round"] ELSE Looping(t)

\* getNodeInfo(node), up to its first query.
getNodeInfo_called(t, node, open) ==
  IF node.parent = Undefined
  THEN getNodeInfo_returned(t, NodeInfo(node.id, node.parent, 0, node.id))
  ELSE IF node.parent = node.id
  THEN Revisiting([t EXCEPT !.node = node, !.parentNode = node, !.depth = 1], open)
  ELSE [t EXCEPT !.pc = "walk", !.node = node, !.parentNode = node,
                 !.depth = 1, !.fetched = {node.id}]

\* pc = "walk": parentNode = await repository.getNode(parentNode.parent).
getNodeInfo_walk(st, t, open) ==
  LET id == t.parentNode.parent
      got == NodeRepository_getNode(st, id)
      on == [Read(t) EXCEPT !.parentNode = got.node, !.fetched = @ \cup {id}]
  IN IF got.err # "none"
     THEN Went(st, Settled(Queried(t, id), got.err, <<>>))
     ELSE IF got.node.parent = Undefined
     THEN Went(st, getNodeInfo_returned(
                     Read(t), NodeInfo(t.node.id, t.node.parent, t.depth, id)))
     ELSE IF got.node.parent \in on.fetched
     THEN Went(st, Revisiting([on EXCEPT !.depth = @ + 1], open))
     ELSE Went(st, [on EXCEPT !.depth = @ + 1])

\* pc = "round": the rounds of a walk on a cycle are not told apart; when no
\* other call can write a parent reference any more, the walk is followed
\* again from where it stands.
getNodeInfo_round(st, t) == Went(st, [t EXCEPT !.pc = "walk", !.fetched = {}])

\* pc = "getNode": const node = await this.repository.getNode(id).
getDescendants_getNode(st, t) ==
  LET got == NodeRepository_getNode(st, t.nodeId)
  IN IF got.err # "none"
     THEN Went(st, Settled(Queried(t, t.nodeId), got.err, <<>>))
     ELSE Went(st, getDescendants_loop([Read(t) EXCEPT !.queue = got.node.children]))

\* pc = "queued": queuedNode = await this.repository.getNode(queue.shift()).
getDescendants_queued(st, t, open) ==
  LET got == NodeRepository_getNode(st, Head(t.queue))
  IN IF got.err # "none"
     THEN Went(st, Settled(Queried(t, Head(t.queue)), got.err, <<>>))
     ELSE Went(st, getNodeInfo_called(
                     [Read(t) EXCEPT !.queue = Tail(@), !.queuedNode = got.node],
                     got.node, open))

\* pc = "count": await this.repository.getNodeCount().
addNode_count(st, t) ==
  LET n == NodeRepository_getNodeCount(st)
      counted == [Read(t) EXCEPT !.count = n]
  IN IF n > 0
     THEN Went(st, Settled(counted, "DuplicateRootError", <<>>))
     ELSE Went(st, [counted EXCEPT !.pc = "create"])

\* Mutant: the node count is read again with the create, as one step.
addNode_create_counted(st, t, open) ==
  LET new == FreshId(st)
      created == [st EXCEPT !.parent = Append(@, t.parentId),
                            !.children = Append(@, <<>>)]
      mongoNode == mongoNodeToNode(created, new)
  IN IF t.parentId = Undefined /\ NodeRepository_getNodeCount(st) > 0
     THEN Went(st, Settled(t, "DuplicateRootError", <<>>))
     ELSE IF t.parentId = Malformed
     THEN Went(st, Settled(t, "NotFoundError", <<>>))
     ELSE IF t.parentId = Undefined
     THEN Went(created, getNodeInfo_called(Written(t), mongoNode, open))
     ELSE Went(created, [Written(t) EXCEPT !.pc = "findParent", !.node = mongoNode])

\* pc = "create": mongoNode = await NodeModel.create({parent, children: []}).
addNode_create(st, t, open) ==
  LET new == FreshId(st)
      created == [st EXCEPT !.parent = Append(@, t.parentId),
                            !.children = Append(@, <<>>)]
      mongoNode == mongoNodeToNode(created, new)
  IN IF t.parentId = Malformed
     THEN Went(st, Settled(t, "NotFoundError", <<>>))
     ELSE IF t.parentId = Undefined
     THEN Went(created, getNodeInfo_called(Written(t), mongoNode, open))
     ELSE Went(created, [Written(t) EXCEPT !.pc = "findParent", !.node = mongoNode])

\* pc = "findParent": mongoParentNode = await NodeModel.findById(parentId).
addNode_findParent(st, t) ==
  IF t.parentId \notin Ids(st)
  THEN Went(st, Settled(Read(t), "NotFoundError", <<>>))
  ELSE Went(st, [Read(t) EXCEPT !.pc = "saveParent",
                                !.doc = mongoNodeToNode(st, t.parentId)])

\* pc = "saveParent": children.push(mongoNode._id); await save().  A push
\* is saved as a push onto the stored array.
addNode_saveParent(st, t, open) ==
  Went([st EXCEPT !.children[t.doc.id] = Append(@, t.node.id)],
       getNodeInfo_called([Written(t) EXCEPT !.doc = NoNode], t.node, open))

\* pc = "findNode": mongoNode = await this.findNodeByIdOrReject(nodeId).
setParent_findNode(st, t) ==
  IF findNodeByIdOrReject(st, t.nodeId) # "none"
  THEN Went(st, Settled(Queried(t, t.nodeId), "NotFoundError", <<>>))
  ELSE IF st.parent[t.nodeId] = Undefined
  THEN Went(st, Settled(Read(t), "InvalidStructureError", <<>>))
  ELSE Went(st, [Read(t) EXCEPT !.pc = "findOldParent",
                                !.node = mongoNodeToNode(st, t.nodeId)])

\* pc = "findOldParent": mongoOldParent = await findNodeByIdOrReject(parent).
setParent_findOldParent(st, t) ==
  IF findNodeByIdOrReject(st, t.node.parent) # "none"
  THEN Went(st, Settled(Queried(t, t.node.parent), "NotFoundError", <<>>))
  ELSE Went(st, [Read(t) EXCEPT !.pc = "saveOldParent",
                                !.doc = mongoNodeToNode(st, t.node.parent)])

\* The array a save of the filtered children is to replace was changed by
\* another call since this call read it.
Stale(st, t) ==
  /\ t.pc = "saveOldParent"
  /\ Without(t.doc.children, t.node.id) # t.doc.children
  /\ st.children[t.doc.id] # t.doc.children

\* pc = "saveOldParent": children = children.filter(...); await save().  A
\* document that the filter left as it was is not written.  The filtered
\* array replaces the stored one; when that one is stale the save either
\* overwrites it or is rejected for the document's version (overwrite).
setParent_saveOldParent(st, t, overwrite) ==
  LET filtered == Without(t.doc.children, t.node.id)
  IN IF filtered = t.doc.children
     THEN Went(st, [t EXCEPT !.pc = "findNewParent", !.doc = NoNode])
     ELSE IF Stale(st, t) /\ ~overwrite
     THEN Went(st, Settled(t, "VersionError", <<>>))
     ELSE Went([st EXCEPT !.children[t.doc.id] = filtered],
               [Written(t) EXCEPT !.pc = "findNewParent", !.doc = NoNode])

\* pc = "findNewParent": newParent = await findNodeByIdOrReject(parentId).
setParent_findNewParent(st, t) ==
  IF findNodeByIdOrReject(st, t.parentId) # "none"
  THEN Went(st, Settled(Queried(t, t.parentId), "NotFoundError", <<>>))
  ELSE Went(st, [Read(t) EXCEPT !.pc = "saveNewParent",
                                !.doc = mongoNodeToNode(st, t.parentId)])

\* pc = "saveNewParent": newParent.children.push(mongoNode._id); save().
setParent_saveNewParent(st, t) ==
  Went([st EXCEPT !.children[t.doc.id] = Append(@, t.node.id)],
       [Written(t) EXCEPT !.pc = "saveNode"])

\* Mutant: the node is saved before its parent is assigned.
setParent_saveNode_early(st, t, open) ==
  Went(st,
       getNodeInfo_called([Written(t) EXCEPT !.phase = "final", !.doc = NoNode],
                          Node(t.node.id, t.doc.id, t.node.children), open))

\* pc = "saveNode": mongoNode.parent = newParent._id; await save(); the
\* service then awaits getNodeInfo(node).
setParent_saveNode(st, t, open) ==
  Went([st EXCEPT !.parent[t.node.id] = t.doc.id],
       getNodeInfo_called([Written(t) EXCEPT !.phase = "final", !.doc = NoNode],
                          Node(t.node.id, t.doc.id, t.node.children), open))

(***************************************************************************)
(* The calls a client makes, one at a time.                                *)
(***************************************************************************)
\* The id strings a caller passes: the stored ids and two that resolve to
\* nothing.
IdArgs == Ids(store) \cup {Malformed, Absent}

NoCall == [op |-> "none", nodeId |-> Undefined, parentId |-> Undefined]

NoResult == [err |-> "none", infos |-> <<>>]

Capacity(st) == IF st.kind = "postgres" THEN MaxRows ELSE MaxNodes

\* The history of the successful calls, as their caller saw them.
Recorded(op, parentId, reply) ==
  rootAdds' = IF op = "addNode" /\ parentId = Undefined /\ reply.err = "none"
              THEN rootAdds + 1 ELSE rootAdds

\* A call is made when no call is under way, and runs to its end.
Completed(op, nodeId, parentId, reply) ==
  /\ call = NoCall
  /\ Cardinality(Ids(reply.st)) <= Capacity(store)
  /\ store' = reply.st
  /\ call' = [op |-> op, nodeId |-> nodeId, parentId |-> parentId]
  /\ result' = [err |-> reply.err, infos |-> reply.infos]
  /\ before' = store
  /\ Recorded(op, parentId, reply)
  /\ UNCHANGED <<tasks, mirror, listedTwice>>

AddNode ==
  \E parentId \in IdArgs \cup {Undefined} :
    \E pos \in Positions(store, Cardinality(Ids(store)) + 1) :
      Completed("addNode", Undefined, parentId,
                NodeService_addNode(store, parentId, pos))

GetDescendants ==
  \E id \in IdArgs :
    Completed("getDescendants", id, Undefined, NodeService_getDescendants(store, id))

SetParent ==
  \E nodeId \in IdArgs, parentId \in IdArgs :
    \E pos \in Positions(store, Cardinality(Ids(store))) :
      Completed("setParent", nodeId, parentId,
                NodeService_setParent(store, nodeId, parentId, pos))

\* The caller has read the outcome of its call and may make the next one.
Return ==
  /\ call # NoCall
  /\ call' = NoCall
  /\ result' = NoResult
  /\ before' = store
  /\ mirror' = [mirror EXCEPT !.err = "none", !.infos = <<>>]
  /\ UNCHANGED <<store, rootAdds, tasks, listedTwice>>

Start(kind) ==
  /\ store = EmptyStore(kind)
  /\ call = NoCall
  /\ result = NoResult
  /\ before = EmptyStore(kind)
  /\ rootAdds = 0
  /\ tasks = [c \in Clients |-> Idle]
  /\ mirror = [st |-> EmptyStore("postgres"), err |-> "none", infos |-> <<>>]
  /\ listedTwice = FALSE

Init == Start("mongo")

InitPostgres == Start("postgres")

Next == AddNode \/ GetDescendants \/ SetParent \/ Return

\* The service over the document store.
Spec == Init /\ [][Next]_vars

\* The service over the relational store.
SpecPostgres == InitPostgres /\ [][Next]_vars

\* The service is constructed with the one store or with the other.
InitEither == Init \/ InitPostgres

\* The service over either store.
SpecServices == InitEither /\ [][Next]_vars

(***************************************************************************)
(* The calls made on the store itself, one at a time, as the repository    *)
(* tests make them.                                                        *)
(***************************************************************************)
RepositoryCompleted(op, nodeId, parentId, outcome) ==
  /\ call = NoCall
  /\ Cardinality(Ids(outcome.st))
       <= (IF store.kind = "postgres" THEN MaxRows ELSE MaxStored)
  /\ store' = outcome.st
  /\ call' = [op |-> op, nodeId |-> nodeId, parentId |-> parentId]
  /\ result' = [err |-> outcome.err, infos |-> <<>>]
  /\ before' = store
  /\ UNCHANGED <<rootAdds, tasks, mirror, listedTwice>>

RepositoryAddNode ==
  \E parentId \in IdArgs \cup {Undefined} :
    \E pos \in Positions(store, Cardinality(Ids(store)) + 1) :
      RepositoryCompleted("repository.addNode", Undefined, parentId,
                          addNode(store, parentId, pos))

RepositoryGetNode ==
  \E id \in IdArgs :
    RepositoryCompleted("repository.getNode", id, Undefined, getNode(store, id))

RepositorySetParent ==
  \E nodeId \in IdArgs, parentId \in IdArgs :
    \E pos \in Positions(store, Cardinality(Ids(store))) :
      RepositoryCompleted("repository.setParent", nodeId, parentId,
                          setParent(store, nodeId, parentId, pos))

NextRepository ==
  RepositoryAddNode \/ RepositoryGetNode \/ RepositorySetParent \/ Return

\* The document store, called without the service.
SpecRepository == Init /\ [][NextRepository]_vars

\* The relational store, called without the service.
SpecRepositoryPostgres == InitPostgres /\ [][NextRepository]_vars

\* Either store, called without the service.
SpecRepositories == InitEither /\ [][NextRepository]_vars

(***************************************************************************)
(* Notions the properties are stated in.                                   *)
(***************************************************************************)
\* The stored nodes without a parent.
Roots(st) == {n \in Ids(st) : st.parent[n] = Undefined}

\* The child ids the store holds for the stored node n.
StoredChildren(st, n) ==
  IF st.kind = "postgres" THEN getChildIds(st, n) ELSE st.children[n]

\* Following parent links from n comes to a parentless node, over stored
\* nodes only and without coming to any node twice (seen: the nodes passed).
RECURSIVE ReachesRoot(_, _, _)
ReachesRoot(st, n, seen) ==
  IF st.parent[n] = Undefined THEN TRUE
  ELSE IF st.parent[n] \notin Ids(st) \/ st.parent[n] \in seen THEN FALSE
  ELSE ReachesRoot(st, st.parent[n], seen \cup {st.parent[n]})

IsTree(st) ==
  Ids(st) # {} =>
    /\ Cardinality(Roots(st)) = 1
    /\ \A n \in Ids(st) \ Roots(st) : st.parent[n] \in Ids(st)
    /\ \A n \in Ids(st) : ReachesRoot(st, n, {n})

\* Children lists and parent references say the same.
IsConsistent(st) ==
  \A n \in Ids(st), c \in Ids(st) :
    (c \in Range(StoredChildren(st, n))) <=> (st.parent[c] = n)

\* The stored nodes reachable from the nodes of S by child links (S included).
RECURSIVE Below(_, _)
Below(st, S) ==
  LET T == S \cup UNION {Range(StoredChildren(st, n)) : n \in S \cap Ids(st)}
  IN IF T = S THEN S ELSE Below(st, T)

\* The strict descendants of n: what child links reach from n.
Descendants(st, n) == Below(st, Range(StoredChildren(st, n)))

\* The stored nodes that parent links reach from n (n excluded unless on a cycle).
RECURSIVE Above(_, _)
Above(st, S) ==
  LET T == S \cup {st.parent[n] : n \in S \cap Ids(st)}
  IN IF T = S THEN S ELSE Above(st, T)

Ancestors(st, n) == Above(st, {st.parent[n]}) \cap Ids(st)

\* Nothing stored differs from what it was before the call.
Unchanged == store = before

(***************************************************************************)
(* Two requests served at the same time over the document store.  The      *)
(* store is first filled by successful addNode calls that do not overlap;  *)
(* then each client makes one call, and the queries and saves of the two   *)
(* calls interleave in any order.                                          *)
(***************************************************************************)
\* addNode(parentId), up to its first query.
addNode_called(parentId) ==
  [Idle EXCEPT !.op = "addNode", !.parentId = parentId, !.phase = "final",
               !.pc = IF parentId = Undefined THEN "count" ELSE "create"]

\* getDescendants(id), up to its first query.
getDescendants_called(id) ==
  [Idle EXCEPT !.op = "getDescendants", !.nodeId = id, !.phase = "scan",
               !.pc = "getNode"]

\* Mutant: nodeId is not compared with parentId before the descendants are
\* asked for.
setParent_called_unchecked(nodeId, parentId) ==
  [Idle EXCEPT !.op = "setParent", !.nodeId = nodeId, !.parentId = parentId,
               !.phase = "scan", !.pc = "getNode"]

\* setParent(nodeId, parentId), up to its first query.
setParent_called(nodeId, parentId) ==
  LET called == [Idle EXCEPT !.op = "setParent", !.nodeId = nodeId,
                             !.parentId = parentId]
  IN IF nodeId = parentId
     THEN Settled(called, "InvalidArgumentError", <<>>)
     ELSE [called EXCEPT !.phase = "scan", !.pc = "getNode"]

\* The task may still write a parent reference: it is a call not yet made,
\* or a setParent that has not saved its node.
CanStillLink(t) ==
  \/ t.pc = "idle"
  \/ t.op = "setParent" /\ t.pc \notin {"done", "hang", "round"} /\ t.phase # "final"

Open(ts, c) == \E d \in Clients \ {c} : CanStillLink(ts[d])

\* The query or save the task awaits is made, and the call runs on to its
\* next one.
Step(st, t, open, overwrite) ==
  CASE t.pc = "count" -> addNode_count(st, t)
    [] t.pc = "create" -> addNode_create(st, t, open)
    [] t.pc = "findParent" -> addNode_findParent(st, t)
    [] t.pc = "saveParent" -> addNode_saveParent(st, t, open)
    [] t.pc = "getNode" -> getDescendants_getNode(st, t)
    [] t.pc = "queued" -> getDescendants_queued(st, t, open)
    [] t.pc = "walk" -> getNodeInfo_walk(st, t, open)
    [] t.pc = "round" -> getNodeInfo_round(st, t)
    [] t.pc = "findNode" -> setParent_findNode(st, t)
    [] t.pc = "findOldParent" -> setParent_findOldParent(st, t)
    [] t.pc = "saveOldParent" -> setParent_saveOldParent(st, t, overwrite)
    [] t.pc = "findNewParent" -> setParent_findNewParent(st, t)
    [] t.pc = "saveNewParent" -> setParent_saveNewParent(st, t)
    [] t.pc = "saveNode" -> setParent_saveNode(st, t, open)

\* The repository's setParent of the task has made some of its saves and
\* not yet the last one, that of the node.
Partial(t) == t.op = "setParent" /\ t.phase = "store" /\ t.writes > 0

\* The id of the document the task's next step reads (Undefined: none).
PendingRead(t) ==
  CASE t.pc \in {"findParent", "findNewParent"} -> t.parentId
    [] t.pc \in {"getNode", "findNode"} -> t.nodeId
    [] t.pc = "queued" -> Head(t.queue)
    [] t.pc = "walk" -> t.parentNode.parent
    [] t.pc = "findOldParent" -> t.node.parent
    [] OTHER -> Undefined

\* The next step of client c reads the node, the old parent or the new
\* parent of another client's setParent while that one is Partial.
Observes(st, ts, c) ==
  \E d \in Clients \ {c} :
    /\ Partial(ts[d])
    /\ PendingRead(ts[c]) \in {ts[d].nodeId, ts[d].node.parent, ts[d].parentId}
    /\ PendingRead(ts[c]) \in Ids(st)

\* The nodes below id: those that the child links reach from id and that
\* the parent links lead to id from.
Under(st, id) ==
  IF id \in Ids(st)
  THEN {n \in Descendants(st, id) \cap Ids(st) : id \in Ancestors(st, n)}
  ELSE {}

\* What a getDescendants call under way keeps of the nodes that were below
\* its node when it was made: those that are below it in st as well, st
\* being the store as a step of the other call (writer) leaves it.  The
\* store is not looked at while the repository's setParent of that call
\* has made only part of its saves.
Watching(t, st, writer) ==
  IF t.op = "getDescendants" /\ t.pc \notin {"idle", "done", "hang"}
     /\ ~Partial(writer)
  THEN [t EXCEPT !.always = @ \cap Under(st, t.nodeId)]
  ELSE t

\* An addNode call is made, runs to its end while no other call is under
\* way, and succeeds.  The store is filled so before the first of the
\* requests that overlap.
Sequentially ==
  /\ \A c \in Clients : tasks[c].pc = "idle"
  /\ ~listedTwice
  /\ \E parentId \in IdArgs \cup {Undefined} :
       LET reply == NodeService_addNode(store, parentId, 1)
       IN /\ Cardinality(Ids(reply.st)) <= MaxDocs
          /\ reply.err = "none"
          /\ store' = reply.st
  /\ UNCHANGED <<call, result, before, rootAdds, tasks, mirror, listedTwice>>

\* A client makes a call.  Of the requests that follow the first two the
\* model follows a getDescendants and a setParent.
Begin(c, t) ==
  /\ tasks[c].pc = "idle"
  /\ listedTwice =>
       /\ t.op # "addNode"
       /\ \A d \in Clients \ {c} : tasks[d].op # t.op
  /\ tasks' = [tasks EXCEPT ![c] = t]
  /\ UNCHANGED <<store, call, result, before, rootAdds, mirror, listedTwice>>

BeginAddNode ==
  \E c \in Clients, parentId \in IdArgs \cup {Undefined} :
    Begin(c, addNode_called(parentId))

BeginGetDescendants ==
  \E c \in Clients, id \in IdArgs :
    Begin(c, [getDescendants_called(id) EXCEPT !.always = Under(store, id)])

BeginSetParent ==
  \E c \in Clients, nodeId \in IdArgs, parentId \in IdArgs :
    Begin(c, setParent_called(nodeId, parentId))

Run ==
  \E c \in Clients :
    /\ tasks[c].pc \notin {"idle", "done", "hang"}
    /\ tasks[c].pc = "round" => ~Open(tasks, c)
    /\ \E overwrite \in IF Stale(store, tasks[c]) THEN BOOLEAN ELSE {TRUE} :
         LET went == Step(store, tasks[c], Open(tasks, c), overwrite)
         IN /\ Cardinality(Ids(went.st)) <= MaxDocs
            /\ store' = went.st
            /\ tasks' = [k \in Clients |->
                           IF k = c
                           THEN [went.t EXCEPT
                                   !.sawPartial = @ \/ Observes(store, tasks, c)]
                           ELSE Watching(tasks[k], went.st, went.t)]
    /\ UNCHANGED <<call, result, before, rootAdds, mirror, listedTwice>>

NextConcurrent ==
  Sequentially \/ BeginAddNode \/ BeginGetDescendants \/ BeginSetParent \/ Run

\* The service over the document store, serving two requests at a time.
SpecConcurrent == Init /\ [][NextConcurrent]_vars

\* Some id is at two places of the sequence.
Twice(infos) ==
  \E i \in 1..Len(infos), j \in 1..Len(infos) : i < j /\ infos[i].id = infos[j].id

\* The getDescendants of client c has been answered and the call of the
\* other client is a setParent that has succeeded; no step of the
\* getDescendants has read a document at a moment when the setParent had
\* made only part of its saves, so that it has seen what it would have
\* seen of a setParent that makes its three saves at once.
Traversed(c) ==
  /\ tasks[c].op = "getDescendants" /\ tasks[c].pc = "done"
  /\ tasks[c].err = "none" /\ ~tasks[c].sawPartial
  /\ \A d \in Clients \ {c} :
       tasks[d].op = "setParent" /\ tasks[d].pc = "done" /\ tasks[d].err = "none"

ListsTwice(c) == Traversed(c) /\ Twice(tasks[c].infos)

\* Both requests have been answered, and the clients go on to their next
\* requests.  The model follows them there once, from the states in which
\* a getDescendants has listed an id twice.
Answered ==
  /\ ~listedTwice
  /\ \E c \in Clients : ListsTwice(c)
  /\ listedTwice' = TRUE
  /\ tasks' = [c \in Clients |-> Idle]
  /\ UNCHANGED <<store, call, result, before, rootAdds, mirror>>

NextConcurrentAgain ==
  \/ Sequentially \/ BeginAddNode \/ BeginGetDescendants \/ BeginSetParent
  \/ Run \/ Answered

\* The service over the document store, serving two requests at a time and
\* two more after them.
SpecConcurrentAgain == Init /\ [][NextConcurrentAgain]_vars

(***************************************************************************)
(* Two services, one over the document store and one over the relational  *)
(* store, that are made the same calls one at a time.  Both stores give    *)
(* out the ids 1, 2, ... in order of creation, so that a call names the    *)
(* same node to both services for as long as the two hold the same parent  *)
(* references; the calls are followed for as long as they do.              *)
(***************************************************************************)
BothCompleted(op, nodeId, parentId, reply, other) ==
  /\ call = NoCall
  /\ store.parent = mirror.st.parent
  /\ Cardinality(Ids(reply.st)) <= MaxRows
  /\ Cardinality(Ids(other.st)) <= MaxRows
  /\ store' = reply.st
  /\ call' = [op |-> op, nodeId |-> nodeId, parentId |-> parentId]
  /\ result' = [err |-> reply.err, infos |-> reply.infos]
  /\ before' = store
  /\ mirror' = [st |-> other.st, err |-> other.err, infos |-> other.infos]
  /\ Recorded(op, parentId, reply)
  /\ UNCHANGED <<tasks, listedTwice>>

BothAddNode ==
  \E parentId \in IdArgs \cup {Undefined} :
    \E pos \in Positions(mirror.st, Cardinality(Ids(mirror.st)) + 1) :
      BothCompleted("addNode", Undefined, parentId,
                    NodeService_addNode(store, parentId, 1),
                    NodeService_addNode(mirror.st, parentId, pos))

BothGetDescendants ==
  \E id \in IdArgs :
    BothCompleted("getDescendants", id, Undefined,
                  NodeService_getDescendants(store, id),
                  NodeService_getDescendants(mirror.st, id))

BothSetParent ==
  \E nodeId \in IdArgs, parentId \in IdArgs :
    \E pos \in Positions(mirror.st, Cardinality(Ids(mirror.st))) :
      BothCompleted("setParent", nodeId, parentId,
                    NodeService_setParent(store, nodeId, parentId, 1),
                    NodeService_setParent(mirror.st, nodeId, parentId, pos))

NextBoth == BothAddNode \/ BothGetDescendants \/ BothSetParent \/ Return

\* The service over the document store and the service over the relational
\* store, side by side.
SpecBoth == Init /\ [][NextBoth]_vars

(***************************************************************************)
(* C1.  Single root: at most one stored node has no parent, at most one    *)
(* addNode() without a parent ever succeeds, and every addNode() without a *)
(* parent made after one has succeeded fails with DuplicateRootError.      *)
(***************************************************************************)
SingleRoot ==
  /\ Cardinality(Roots(store)) <= 1
  /\ rootAdds <= 1
  /\ (call.op = "addNode" /\ call.parentId = Undefined
        /\ rootAdds >= 1 /\ result.err # "none")
       => result.err = "DuplicateRootError"

\* A second addNode() is rejected on a tree that has a root and a child.
SingleRootWitness ==
  /\ call.op = "addNode" /\ call.parentId = Undefined
  /\ rootAdds = 1 /\ Cardinality(Ids(before)) >= 2
  /\ result.err = "DuplicateRootError" /\ Unchanged

(***************************************************************************)
(* C2.  Acyclicity: for an existing node N, setParent(N, N) fails with     *)
(* InvalidArgumentError, setParent(N, P) with P a strict descendant of N   *)
(* fails with InvalidStructureError, and both leave the store unchanged.   *)
(***************************************************************************)
ReparentIntoSubtreeRejected ==
  (call.op = "setParent" /\ call.nodeId \in Ids(before)) =>
    /\ call.parentId = call.nodeId
         => (result.err = "InvalidArgumentError" /\ Unchanged)
    /\ (call.parentId # call.nodeId
          /\ call.parentId \in Descendants(before, call.nodeId))
         => (result.err = "InvalidStructureError" /\ Unchanged)

(***************************************************************************)
(* C3.  Tree invariant: after every completed call a non-empty store has   *)
(* exactly one parentless node, every other parent reference names a       *)
(* stored node, and parent links lead from every node to the root without  *)
(* visiting a node twice.                                                  *)
(***************************************************************************)
TreeInvariant == IsTree(store)

(***************************************************************************)
(* C4.  Children/parent consistency: after every completed call, C is in   *)
(* N.children if and only if C's stored parent is N.                       *)
(***************************************************************************)
ChildrenParentConsistency == IsConsistent(store)

\* The number of parent links from the stored node n up to its root.
Depth(st, n) == Cardinality(Ancestors(st, n))

\* The ids of a sequence of NodeInfo values, in order.
IdsOf(infos) == [i \in 1..Len(infos) |-> infos[i].id]

\* The place of x in the sequence s that holds it.
Pos(s, x) == CHOOSE i \in 1..Len(s) : s[i] = x

(***************************************************************************)
(* C5.  Depth correctness: every NodeInfo a call returns carries the       *)
(* node's stored parent; a parentless node has depth 0 and is its own      *)
(* root; any other node has the depth of its parent plus one and, as root, *)
(* the parentless node that parent links lead to.                          *)
(***************************************************************************)
InfoCorrect(st, info) ==
  /\ info.id \in Ids(st)
  /\ info.parent = st.parent[info.id]
  /\ IF info.parent = Undefined
     THEN info.depth = 0 /\ info.root = info.id
     ELSE /\ info.parent \in Ids(st)
          /\ info.depth = Depth(st, info.parent) + 1
          /\ info.root \in Ancestors(st, info.id)
          /\ Roots(st) = {info.root}

DepthCorrect ==
  result.err = "none" =>
    \A i \in 1..Len(result.infos) : InfoCorrect(store, result.infos[i])

\* getDescendants lists the depths 1, 2 and 3, the node at depth 3 being
\* older than its parent: it was reparented.
DepthCorrectWitness ==
  /\ call.op = "getDescendants" /\ result.err = "none"
  /\ Len(result.infos) = 3
  /\ {result.infos[i].depth : i \in 1..3} = {1, 2, 3}
  /\ result.infos[3].id < result.infos[3].parent

(***************************************************************************)
(* C6.  On a store that is a tree, getDescendants(id) of a stored id       *)
(* succeeds, changes nothing and returns exactly the strict descendants of *)
(* id, each once; id is not among them and a leaf yields the empty list.   *)
(* On a tree whose children lists agree with the parent references these   *)
(* are exactly the nodes that have id among their ancestors.               *)
(***************************************************************************)
DescendantsExact ==
  (call.op = "getDescendants" /\ call.nodeId \in Ids(before) /\ IsTree(before)) =>
    LET ids == IdsOf(result.infos)
    IN /\ result.err = "none"
       /\ Unchanged
       /\ Range(ids) = Descendants(before, call.nodeId)
       /\ Cardinality(Range(ids)) = Len(ids)
       /\ call.nodeId \notin Range(ids)
       /\ StoredChildren(before, call.nodeId) = <<>> => ids = <<>>
       /\ IsConsistent(before) =>
            Range(ids) = {n \in Ids(before) : call.nodeId \in Ancestors(before, n)}

\* getDescendants of a node that is not the root and has a child and a
\* grandchild, in a tree of four nodes.
DescendantsExactWitness ==
  /\ call.op = "getDescendants" /\ IsTree(before) /\ IsConsistent(before)
  /\ call.nodeId \in Ids(before) \ Roots(before)
  /\ Len(result.infos) = 2
  /\ result.infos[2].parent = result.infos[1].id

(***************************************************************************)
(* C7.  Descendant order: the depths along the sequence getDescendants     *)
(* returns never decrease; siblings come in the order of their parent's    *)
(* children list; and that list is in order of insertion: a call leaves    *)
(* the relative order of the children as it was, but for the node that a   *)
(* setParent is to move, and the node a successful addNode or setParent    *)
(* places under a parent is the last of that parent's children.            *)
(***************************************************************************)
BreadthFirst(st, infos) ==
  \A i \in 1..Len(infos), j \in 1..Len(infos) :
    i < j =>
      /\ infos[i].depth <= infos[j].depth
      /\ infos[i].parent = infos[j].parent =>
           LET siblings == st.children[infos[i].parent]
           IN /\ infos[i].id \in Range(siblings)
              /\ infos[j].id \in Range(siblings)
              /\ Pos(siblings, infos[i].id) < Pos(siblings, infos[j].id)

\* The node the last call placed under call.parentId (Undefined: none).
Placed ==
  IF result.err = "none" /\ call.op \in {"addNode", "setParent"}
     /\ call.parentId # Undefined
  THEN result.infos[1].id
  ELSE Undefined

\* The node the last call was to move (Undefined: none).
Moved == IF call.op = "setParent" THEN call.nodeId ELSE Undefined

InsertionOrderKept ==
  /\ \A p \in Ids(before) :
       \A a \in Range(before.children[p]), b \in Range(before.children[p]) :
         (/\ a # Moved /\ b # Moved
          /\ a \in Range(store.children[p]) /\ b \in Range(store.children[p])
          /\ Pos(before.children[p], a) < Pos(before.children[p], b))
         => Pos(store.children[p], a) < Pos(store.children[p], b)
  /\ Placed # Undefined =>
       /\ store.children[call.parentId] # <<>>
       /\ store.children[call.parentId][Len(store.children[call.parentId])] = Placed
       /\ Pos(store.children[call.parentId], Placed) = Len(store.children[call.parentId])

DescendantOrder ==
  /\ InsertionOrderKept
  /\ (call.op = "getDescendants" /\ result.err = "none")
       => BreadthFirst(store, result.infos)

\* The node asked about has the children A, B and A has the child C; A, B,
\* C is returned, where B is older than A and came behind A by a setParent.
DescendantOrderWitness ==
  /\ call.op = "getDescendants" /\ result.err = "none"
  /\ Len(result.infos) = 3
  /\ result.infos[1].depth = 1 /\ result.infos[2].depth = 1
  /\ result.infos[3].depth = 2
  /\ result.infos[3].parent = result.infos[1].id
  /\ result.infos[1].id > result.infos[2].id

(***************************************************************************)
(* C8.  Reparent effect: after a successful setParent(N, P) of a node N    *)
(* whose parent was O # P, N's parent is P, N is not in O.children, N is   *)
(* the last of P.children and the NodeInfo returned is {N, P, depth(P) +   *)
(* 1, the root}.  Reparenting the grandchild C2 of R -> C1 -> C2 to R      *)
(* succeeds with depth 1 and leaves R.children = [C1, C2], C1.children =   *)
(* [].                                                                     *)
(***************************************************************************)
Grandchild(st) ==
  /\ st.parent = <<Undefined, 1, 2>>
  /\ st.children = << <<2>>, <<3>>, <<>> >>

ReparentEffect ==
  /\ (/\ call.op = "setParent" /\ result.err = "none"
      /\ before.parent[call.nodeId] # call.parentId)
     => LET N == call.nodeId
            P == call.parentId
            O == before.parent[N]
        IN /\ store.parent[N] = P
           /\ N \notin Range(store.children[O])
           /\ store.children[P] = Append(before.children[P], N)
           /\ \E R \in Roots(store) :
                /\ Roots(store) = {R}
                /\ result.infos = <<NodeInfo(N, P, Depth(store, P) + 1, R)>>
  /\ (call.op = "setParent" /\ Grandchild(before)
        /\ call.nodeId = 3 /\ call.parentId = 1)
     => /\ result.err = "none"
        /\ result.infos = <<NodeInfo(3, 1, 1, 1)>>
        /\ store.children[1] = <<2, 3>>
        /\ store.children[2] = <<>>

\* The grandchild has been reparented to the root.
ReparentEffectWitness ==
  /\ call.op = "setParent" /\ result.err = "none"
  /\ Grandchild(before) /\ call.nodeId = 3 /\ call.parentId = 1
  /\ store.children = << <<2, 3>>, <<>>, <<>> >>

(***************************************************************************)
(* C9.  Not-found propagation: with an id that is not in the store and any *)
(* stored node X, addNode(id), getDescendants(id), setParent(id, X) and    *)
(* setParent(X, id) each fail with NotFoundError.                          *)
(***************************************************************************)
NotStored(id) == id # Undefined /\ id \notin Ids(before)

NotFoundPropagation ==
  /\ (call.op = "addNode" /\ NotStored(call.parentId))
       => result.err = "NotFoundError"
  /\ (call.op = "getDescendants" /\ NotStored(call.nodeId))
       => result.err = "NotFoundError"
  /\ (call.op = "setParent" /\ NotStored(call.nodeId)
        /\ call.parentId \in Ids(before))
       => result.err = "NotFoundError"
  /\ (call.op = "setParent" /\ call.nodeId \in Ids(before)
        /\ NotStored(call.parentId))
       => result.err = "NotFoundError"

(***************************************************************************)
(* C10.  Root immutability, as claimed: setParent(R, P) of the parentless  *)
(* node R fails with InvalidStructureError for every P whatsoever.         *)
(***************************************************************************)
RootNeverReparented ==
  (call.op = "setParent" /\ call.nodeId \in Roots(before))
    => result.err = "InvalidStructureError"

(***************************************************************************)
(* C10, amended.  setParent(R, P) of the parentless node R fails with      *)
(* InvalidStructureError for every P other than R, stored or not, and      *)
(* with InvalidArgumentError for P = R; the store is unchanged.            *)
(***************************************************************************)
RootImmutable ==
  (call.op = "setParent" /\ call.nodeId \in Roots(before)) =>
    /\ Unchanged
    /\ result.err = IF call.parentId = call.nodeId
                    THEN "InvalidArgumentError" ELSE "InvalidStructureError"

\* The root of a tree with a child is given a parent that is not stored:
\* the descendant check passes and the store rejects the call.
RootImmutableWitness ==
  /\ call.op = "setParent" /\ call.nodeId \in Roots(before)
  /\ before.children[call.nodeId] # <<>>
  /\ call.parentId = Absent
  /\ result.err = "InvalidStructureError"

(***************************************************************************)
(* C11.  addNode(parentId) with a parentId that resolves to no stored node  *)
(* fails with NotFoundError and changes nothing: no node is created, the   *)
(* node count and every node's parent and children list are as before.     *)
(***************************************************************************)
AddNodeNotFoundNoMutation ==
  (call.op = "addNode" /\ NotStored(call.parentId)) =>
    /\ result.err = "NotFoundError"
    /\ Ids(store) = Ids(before)
    /\ getNodeCount(store) = getNodeCount(before)
    /\ Unchanged

(***************************************************************************)
(* C12.  A setParent call that fails with NotFoundError,                   *)
(* InvalidStructureError or InvalidArgumentError leaves every stored       *)
(* node's parent and children list as they were, the children list of the  *)
(* node's current parent included.                                         *)
(***************************************************************************)
FailedSetParentNoMutation ==
  (call.op = "setParent"
     /\ result.err \in {"NotFoundError", "InvalidStructureError",
                        "InvalidArgumentError"})
    => /\ Unchanged
       /\ \A n \in Ids(before) :
            /\ store.parent[n] = before.parent[n]
            /\ StoredChildren(store, n) = StoredChildren(before, n)

(***************************************************************************)
(* C14.  No operation blocks: each call of addNode, getDescendants and     *)
(* setParent, made in any store state that calls made one at a time lead   *)
(* to, completes with a result or an error.                                *)
(***************************************************************************)
NoCallBlocks == result.err \notin {"hang", "crash"}

(***************************************************************************)
(* C16.  getNodeCount is the number of persisted nodes: 0 on the empty     *)
(* store, one more after each addNode call that returned successfully,     *)
(* and the same after setParent, getDescendants and any failed call.       *)
(***************************************************************************)
NodeCountTracksAdds ==
  /\ Ids(store) = {} => getNodeCount(store) = 0
  /\ getNodeCount(store) = Cardinality(Ids(store))
  /\ getNodeCount(store) =
       getNodeCount(before)
         + (IF call.op = "addNode" /\ result.err = "none" THEN 1 ELSE 0)

(***************************************************************************)
(* C15.  The three failure classes of setParent are distinguishable at the *)
(* API boundary: the response code sent for a setParent that failed with   *)
(* NotFoundError, InvalidStructureError or InvalidArgumentError differs    *)
(* from the response code of each of the other two.                        *)
(***************************************************************************)
FailureClasses == {"NotFoundError", "InvalidStructureError", "InvalidArgumentError"}

ErrorCodesDistinct ==
  (call.op = "setParent" /\ result.err \in FailureClasses) =>
    \A other \in FailureClasses \ {result.err} :
      patchNodeHandler(result.err) # patchNodeHandler(other)

(***************************************************************************)
(* C18.  The store's setParent(nodeId, parentId) of a node without a       *)
(* parent fails with InvalidStructureError whether parentId resolves or    *)
(* not, and fails with NotFoundError when nodeId resolves to no node; no    *)
(* write is made in either case.                                           *)
(***************************************************************************)
RootCheckBeforeParentLookup ==
  call.op = "repository.setParent" =>
    /\ call.nodeId \in Roots(before)
         => (result.err = "InvalidStructureError" /\ Unchanged)
    /\ NotStored(call.nodeId)
         => (result.err = "NotFoundError" /\ Unchanged)

(***************************************************************************)
(* C13.  The repository's setParent is atomic as a unit: no step of        *)
(* another call reads the node, the old parent or the new parent of a      *)
(* setParent at a moment when only part of its saves has been made.        *)
(***************************************************************************)
SetParentAtomic == \A c \in Clients : ~tasks[c].sawPartial

(***************************************************************************)
(* C17.  setParent(x, x) fails with InvalidArgumentError for every id x,   *)
(* an id of no stored node and the root's id included, and is over before  *)
(* it has made any query or save.                                          *)
(***************************************************************************)
SelfParentRejectedFirst ==
  \A c \in Clients :
    (tasks[c].op = "setParent" /\ tasks[c].nodeId = tasks[c].parentId) =>
      /\ tasks[c].pc = "done"
      /\ tasks[c].err = "InvalidArgumentError"
      /\ tasks[c].reads = 0
      /\ tasks[c].writes = 0

\* On a tree of two nodes one client has called setParent(R, R) of the root
\* and the other setParent(x, x) with an id of no stored node.
SelfParentRejectedFirstWitness ==
  /\ Cardinality(Ids(store)) = 2 /\ IsTree(store)
  /\ tasks[1].op = "setParent" /\ tasks[1].nodeId \in Roots(store)
  /\ tasks[1].parentId = tasks[1].nodeId
  /\ tasks[2].op = "setParent" /\ tasks[2].nodeId = Absent
  /\ tasks[2].parentId = Absent
  /\ tasks[1].err = "InvalidArgumentError" /\ tasks[2].err = "InvalidArgumentError"

(***************************************************************************)
(* C19.  The duplicate-root check and the create of addNode() are two      *)
(* steps: an addNode() that has read a node count of 0 creates its         *)
(* parentless node and succeeds, whatever was created since, so that two   *)
(* calls that both read 0 both succeed and leave two parentless nodes.     *)
(***************************************************************************)
ReadNoNodes(t) ==
  t.op = "addNode" /\ t.parentId = Undefined /\ t.pc = "done" /\ t.count = 0

RootRace ==
  /\ \A c \in Clients :
       ReadNoNodes(tasks[c]) =>
         /\ tasks[c].err = "none"
         /\ \E n \in Roots(store) :
              tasks[c].infos = <<NodeInfo(n, Undefined, 0, n)>>
  /\ (ReadNoNodes(tasks[1]) /\ ReadNoNodes(tasks[2])) =>
       /\ tasks[1].infos # tasks[2].infos
       /\ Cardinality(Roots(store)) >= 2

\* On the empty store both clients called addNode(), both read a count of
\* 0 and both succeeded: the store holds two nodes, both without a parent.
RootRaceWitness ==
  /\ ReadNoNodes(tasks[1]) /\ ReadNoNodes(tasks[2])
  /\ tasks[1].err = "none" /\ tasks[2].err = "none"
  /\ Ids(store) = {1, 2}
  /\ Roots(store) = {1, 2}

\* Parent links lead from some stored node back to itself.
HasCycle(st) == \E n \in Ids(st) : n \in Above(st, {st.parent[n]})

\* The call is a setParent whose repository call has made its three saves.
Reparented(t) ==
  t.op = "setParent" /\ t.pc \in {"done", "hang"} /\ t.writes = 3

\* setParent(A, B) and setParent(B, A) of two nodes A and B.
Crossing ==
  /\ tasks[1].op = "setParent" /\ tasks[2].op = "setParent"
  /\ tasks[1].nodeId # tasks[1].parentId
  /\ tasks[1].nodeId = tasks[2].parentId
  /\ tasks[1].parentId = tasks[2].nodeId

StoreAllowsSecondRoot ==
  (call.op = "repository.addNode" /\ call.parentId = Undefined) =>
    /\ result.err = "none"
    /\ Ids(store) = Ids(before) \cup {FreshId(before)}
    /\ Roots(store) = Roots(before) \cup {FreshId(before)}
    /\ Ids(before) # {} =>
         \A pos \in Positions(before, Cardinality(Ids(before)) + 1) :
           /\ NodeService_addNode(before, Undefined, pos).err = "DuplicateRootError"
           /\ NodeService_addNode(before, Undefined, pos).st = before

\* The store's addNode() has been called on a store of two nodes or more
\* and has left one parentless node more than there was.
StoreAllowsSecondRootWitness ==
  /\ call.op = "repository.addNode" /\ call.parentId = Undefined
  /\ Cardinality(Ids(before)) >= 2 /\ Roots(before) # {}
  /\ result.err = "none"
  /\ Cardinality(Roots(store)) = Cardinality(Roots(before)) + 1

(***************************************************************************)
(* C23.  A successful addNode(P) on the document store creates exactly one *)
(* node, with an id that was not stored before, parent P and no children,  *)
(* makes it the last of P.children, leaves every other node's parent and   *)
(* every other children list as they were, and raises the node count by 1. *)
(***************************************************************************)
AddNodeEffect ==
  (call.op \in {"addNode", "repository.addNode"} /\ result.err = "none") =>
    LET new == FreshId(before)
        P == call.parentId
    IN /\ new \notin Ids(before)
       /\ Ids(store) = Ids(before) \cup {new}
       /\ store.parent[new] = P
       /\ store.children[new] = <<>>
       /\ P # Undefined => store.children[P] = Append(before.children[P], new)
       /\ \A n \in Ids(before) :
            /\ store.parent[n] = before.parent[n]
            /\ n # P => store.children[n] = before.children[n]
       /\ getNodeCount(store) = getNodeCount(before) + 1
       /\ call.op = "addNode" => result.infos[1].id = new

\* A node has been added under a parent that is not the root and had a
\* child already.
AddNodeEffectWitness ==
  /\ call.op = "addNode" /\ result.err = "none"
  /\ call.parentId \in Ids(before) \ Roots(before)
  /\ before.children[call.parentId] # <<>>
  /\ Len(store.children[call.parentId]) = Len(before.children[call.parentId]) + 1

(***************************************************************************)
(* C24.  A successful setParent(N, P) moves N with its subtree: the        *)
(* descendants of N and N's children list are as before, the depth of      *)
(* every descendant of N changes by as much as the depth of N, no node     *)
(* but N changes its parent, no node but N's old parent and P changes its  *)
(* children list, and the node count is as before.                         *)
(***************************************************************************)
SubtreeMoves ==
  (call.op = "setParent" /\ result.err = "none") =>
    LET N == call.nodeId
        P == call.parentId
        O == before.parent[N]
    IN /\ Descendants(store, N) = Descendants(before, N)
       /\ StoredChildren(store, N) = StoredChildren(before, N)
       /\ \A d \in Descendants(before, N) :
            Depth(store, d) - Depth(before, d) = Depth(store, N) - Depth(before, N)
       /\ \A n \in Ids(before) \ {N} : store.parent[n] = before.parent[n]
       /\ \A n \in Ids(before) \ {O, P} :
            StoredChildren(store, n) = StoredChildren(before, n)
       /\ Ids(store) = Ids(before)
       /\ getNodeCount(store) = getNodeCount(before)

\* A node with a child has been moved from depth 2 to depth 1: its child
\* went from depth 3 to depth 2.
SubtreeMovesWitness ==
  /\ call.op = "setParent" /\ result.err = "none"
  /\ IsTree(before) /\ IsTree(store)
  /\ Depth(before, call.nodeId) = 2 /\ Depth(store, call.nodeId) = 1
  /\ \E d \in Descendants(store, call.nodeId) :
       Depth(before, d) = 3 /\ Depth(store, d) = 2

ReparentToSameParent ==
  (/\ call.op = "setParent" /\ call.nodeId \in Ids(before)
   /\ call.parentId \in Ids(before)
   /\ before.parent[call.nodeId] = call.parentId) =>
    LET N == call.nodeId
        P == call.parentId
        again == NodeService_setParent(store, N, P, 1)
    IN /\ result.err = "none"
       /\ store.parent = before.parent
       /\ result.infos = getNodeInfo(before, mongoNodeToNode(before, N)).infos
       /\ store.children[P] = Append(Without(before.children[P], N), N)
       /\ again.err = "none"
       /\ again.st = store
       /\ again.infos = result.infos

(***************************************************************************)
(* C28.  Reparent inverse: for a node N whose parent is the stored node P1 *)
(* and a stored node P2 that is neither N nor a descendant of N,           *)
(* setParent(N, P2) succeeds, and setParent(N, P1) made next succeeds and  *)
(* gives every node the parent, the depth and the set of children it had   *)
(* before the first call; only the place of N in P1.children may differ:   *)
(* N is the last.                                                          *)
(***************************************************************************)
ReparentInverse ==
  (/\ call.op = "setParent" /\ call.nodeId \in Ids(before)
   /\ before.parent[call.nodeId] \in Ids(before)
   /\ call.parentId \in Ids(before)
        \ ({call.nodeId} \cup Descendants(before, call.nodeId))) =>
    LET N == call.nodeId
        P1 == before.parent[N]
        back == NodeService_setParent(store, N, P1, 1)
    IN /\ result.err = "none"
       /\ back.err = "none"
       /\ back.st.parent = before.parent
       /\ \A n \in Ids(before) :
            /\ Range(back.st.children[n]) = Range(before.children[n])
            /\ Depth(back.st, n) = Depth(before, n)
            /\ n # P1 => back.st.children[n] = before.children[n]
       /\ back.st.children[P1] = Append(Without(before.children[P1], N), N)

(***************************************************************************)
(* C25.  The results of the service do not depend on the store: made the   *)
(* same calls one at a time, the service over the document store and the   *)
(* service over the relational store give the same outcome for each call   *)
(* (the same error kind, the same NodeInfo values in the same order) and   *)
(* hold the same parent references after it.                               *)
(***************************************************************************)
StorageVariantsAgree ==
  /\ result.err = mirror.err
  /\ result.infos = mirror.infos
  /\ store.parent = mirror.st.parent

(***************************************************************************)
(* C21.  getDescendants is not safe while a setParent is under way, even   *)
(* when it sees that setParent as one atomic write.  The sequence it       *)
(* returns holds no id more than twice; an id it holds twice, and a node   *)
(* it leaves out that was below its node all the time, is the node of the  *)
(* other request's setParent or one of that node's descendants.  Both      *)
(* happen: one traversal has listed an id twice, another has left out a    *)
(* node that was below its node all the time.                              *)
(***************************************************************************)
\* The ids that the answered getDescendants of client c lists twice or
\* leaves out although they were below its node all the time.
Astray(c) ==
  LET ids == IdsOf(tasks[c].infos)
  IN {ids[i] : i \in {j \in 1..Len(ids) : \E k \in 1..Len(ids) : k # j /\ ids[k] = ids[j]}}
       \cup (tasks[c].always \ Range(ids))

Omits(c) == Traversed(c) /\ tasks[c].always \ Range(IdsOf(tasks[c].infos)) # {}

TraversalUnderMutation ==
  \A c \in Clients :
    (tasks[c].op = "getDescendants" /\ tasks[c].pc = "done" /\ tasks[c].err = "none") =>
      LET ids == IdsOf(tasks[c].infos)
      IN /\ \A n \in Range(ids) : Cardinality({i \in 1..Len(ids) : ids[i] = n}) <= 2
         /\ Astray(c) # {} =>
              \E d \in Clients \ {c} :
                /\ tasks[d].op = "setParent" /\ tasks[d].writes > 0
                /\ Astray(c) \subseteq Below(store, {tasks[d].nodeId})

\* A getDescendants answered earlier has listed an id twice, and now one
\* has left out a node that was below its node all the time; the setParent
\* of the other request has succeeded, and the getDescendants has read
\* nothing while only part of that setParent was written.
TraversalUnderMutationWitness ==
  /\ listedTwice
  /\ \E c \in Clients : Omits(c)

====
